---- MODULE Spec2Model ----
(***************************************************************************)
(* gen_test_bundle_invocation.py: generate a shell script that invokes a   *)
(* list of dart_test targets, and mark it executable.                      *)
(*                                                                         *)
(* The state is the command line of the invocation, the part of the file   *)
(* system the program can touch (the working directory and the paths below *)
(* it), and the position of main().  A path is the sequence of its         *)
(* components, relative to the working directory; a string is the sequence *)
(* of its characters.                                                      *)
(***************************************************************************)
EXTENDS Integers, Sequences, FiniteSets, TLC

\* ------------------------------------------------------------------ bounds
MaxDepth == 3
MaxTargets == 3
MaxRuns == 2

\* Path components and test targets the command line is drawn from.
Names == {"d"}
Targets == {<<"x">>, <<"y", "z">>}

\* ------------------------------------------------------- mode bits (stat)
S_IRUSR == 256
S_IWUSR == 128
S_IXUSR == 64
S_IRGRP == 32
S_IWGRP == 16
S_IXGRP == 8
S_IROTH == 4
S_IWOTH == 2
S_IXOTH == 1

HasBit(mode, bit) == (mode \div bit) % 2 = 1

RECURSIVE BitOr(_, _)
BitOr(a, b) ==
  IF a = 0 THEN b
  ELSE IF b = 0 THEN a
  ELSE (IF a % 2 = 1 \/ b % 2 = 1 THEN 1 ELSE 0) + 2 * BitOr(a \div 2, b \div 2)

\* open(path, 'w') creates with 0666 & ~umask, mkdir with 0777 & ~umask
\* (umask 022).
CreateMode == 420
MkdirMode == 493

\* ------------------------------------------------------------ file system
Front(p) == SubSeq(p, 1, Len(p) - 1)

RECURSIVE PathsOfLen(_)
PathsOfLen(n) ==
  IF n = 0 THEN {<<>>}
  ELSE {Append(p, c) : p \in PathsOfLen(n - 1), c \in Names}

AllPaths == UNION {PathsOfLen(n) : n \in 0..MaxDepth}
OutPaths == UNION {PathsOfLen(n) : n \in 1..MaxDepth}

NoNode == [kind |-> "none", mode |-> 0, owner |-> "", content |-> <<>>]
DirNode(m) == [kind |-> "dir", mode |-> m, owner |-> "me", content |-> <<>>]
FileNode(c, m, o) == [kind |-> "file", mode |-> m, owner |-> o, content |-> c]

\* The proper prefixes of p, the working directory (<<>>) included.
Ancestors(p) == {SubSeq(p, 1, k) : k \in 0..(Len(p) - 1)}

\* Path resolution reaches p's directory entry: every ancestor is a
\* directory the process may search.
Traversable(f, p) ==
  \A q \in Ancestors(p) : f[q].kind = "dir" /\ HasBit(f[q].mode, S_IXUSR)

\* errno of a failed resolution of p: decided by the first ancestor that
\* stops it.
ResolveErr(f, p) ==
  LET bad == {q \in Ancestors(p) :
                ~(f[q].kind = "dir" /\ HasBit(f[q].mode, S_IXUSR))}
      q0 == CHOOSE q \in bad : \A r \in bad : Len(q) <= Len(r)
  IN  IF f[q0].kind = "none" THEN "ENOENT"
      ELSE IF f[q0].kind = "file" THEN "ENOTDIR"
      ELSE "EACCES"

\* os.path.exists(p): stat succeeds.  The empty string names nothing.
PathExists(f, p) ==
  /\ p # <<>>
  /\ Traversable(f, p)
  /\ f[p].kind # "none"

\* The process may write the file: the owner's bit for its own files, the
\* others' bit for anybody else's.
CanWrite(node) ==
  IF node.owner = "me" THEN HasBit(node.mode, S_IWUSR)
  ELSE HasBit(node.mode, S_IWOTH)

\* A file-system call returns the errno it failed with ("" on success) and
\* the file system it leaves.
Ok(f) == [err |-> "", fs |-> f]
Failed(e, f) == [err |-> e, fs |-> f]

\* mkdir(p) when the disk is full or not.
Mkdir(f, p, full) ==
  IF p = <<>> THEN Failed("ENOENT", f)
  ELSE IF ~Traversable(f, p) THEN Failed(ResolveErr(f, p), f)
  ELSE IF f[p].kind # "none" THEN Failed("EEXIST", f)
  ELSE IF ~HasBit(f[Front(p)].mode, S_IWUSR) THEN Failed("EACCES", f)
  ELSE IF full THEN Failed("ENOSPC", f)
  ELSE Ok([f EXCEPT ![p] = DirNode(MkdirMode)])

\* os.makedirs(name): make the missing ancestors first (an ancestor that
\* turns out to exist is not an error), then the leaf, whose failure is
\* raised.
RECURSIVE Makedirs(_, _, _)
Makedirs(f, name, full) ==
  LET head == Front(name)
      up == IF name # <<>> /\ head # <<>> /\ ~PathExists(f, head)
            THEN Makedirs(f, head, full)
            ELSE Ok(f)
  IN  IF up.err \notin {"", "EEXIST"} THEN up
      ELSE Mkdir(up.fs, name, full)

\* Faulty variant of OpenW: the file is opened without truncation ('r+' or
\* 'a' for 'w'), so what an earlier file held beyond the new text survives.
OpenW_NoTruncate(f, p, full) ==
  IF ~Traversable(f, p) THEN Failed(ResolveErr(f, p), f)
  ELSE IF f[p].kind = "dir" THEN Failed("EISDIR", f)
  ELSE IF f[p].kind = "file"
  THEN IF CanWrite(f[p]) THEN Ok(f) ELSE Failed("EACCES", f)
  ELSE IF ~HasBit(f[Front(p)].mode, S_IWUSR) THEN Failed("EACCES", f)
  ELSE IF full THEN Failed("ENOSPC", f)
  ELSE Ok([f EXCEPT ![p] = FileNode(<<>>, CreateMode, "me")])

\* open(p, 'w'): create the file, or truncate the one that is there.
OpenW(f, p, full) ==
  IF ~Traversable(f, p) THEN Failed(ResolveErr(f, p), f)
  ELSE IF f[p].kind = "dir" THEN Failed("EISDIR", f)
  ELSE IF f[p].kind = "file"
  THEN IF CanWrite(f[p])
       THEN Ok([f EXCEPT ![p].content = <<>>])
       ELSE Failed("EACCES", f)
  ELSE IF ~HasBit(f[Front(p)].mode, S_IWUSR) THEN Failed("EACCES", f)
  ELSE IF full THEN Failed("ENOSPC", f)
  ELSE Ok([f EXCEPT ![p] = FileNode(<<>>, CreateMode, "me")])

\* os.chmod(p, mode): only the owner may change the mode.
Chmod(f, p, mode) ==
  IF ~Traversable(f, p) THEN Failed(ResolveErr(f, p), f)
  ELSE IF f[p].kind = "none" THEN Failed("ENOENT", f)
  ELSE IF f[p].owner # "me" THEN Failed("EPERM", f)
  ELSE Ok([f EXCEPT ![p].mode = mode])

\* write(data) at offset 0 of a file holding `content`: what lies beyond the
\* data stays.
WriteAt(content, data) ==
  data \o SubSeq(content, Len(data) + 1, Len(content))

\* ------------------------------------------------------------- the script
Shebang == <<"#", "!", "/", "b", "i", "n", "/", "s", "h", "\n", "\n">>

\* Faulty variant of Format: "%s" for "%s\n".
Format_NoNewline(test_executable) == test_executable

\* "%s\n" % test_executable
Format(test_executable) == test_executable \o <<"\n">>

\* The loop over args.test, from its i-th element on.
RECURSIVE AppendTargets(_, _, _)
AppendTargets(s, tests, i) ==
  IF i > Len(tests) THEN s
  ELSE AppendTargets(s \o Format(tests[i]), tests, i + 1)

\* Faulty variant of BuildScriptText: the loop runs over the distinct
\* targets (a set built from args.test), a repeated one is emitted once.
RECURSIVE AppendDistinct(_, _, _)
AppendDistinct(s, tests, i) ==
  IF i > Len(tests) THEN s
  ELSE IF \E j \in 1..(i - 1) : tests[j] = tests[i]
  THEN AppendDistinct(s, tests, i + 1)
  ELSE AppendDistinct(s \o Format(tests[i]), tests, i + 1)

BuildScriptText_Dedup(tests) == AppendDistinct(Shebang, tests, 1)

BuildScriptText(tests) == AppendTargets(Shebang, tests, 1)

\* Faulty variant of Permissions: S_IXOTH is set too, 0775.
Permissions_WorldExec ==
  BitOr(S_IRUSR, BitOr(S_IWUSR, BitOr(S_IXUSR,
  BitOr(S_IRGRP, BitOr(S_IWGRP, BitOr(S_IXGRP, BitOr(S_IROTH, S_IXOTH)))))))

Permissions ==
  BitOr(S_IRUSR, BitOr(S_IWUSR, BitOr(S_IXUSR,
  BitOr(S_IRGRP, BitOr(S_IWGRP, BitOr(S_IXGRP, S_IROTH))))))

\* ----------------------------------------------------------- command line
\* Faulty variant of ParseResult: --test declared without required=True.
ParseResult_TestOptional(a) ==
  IF a.help THEN "help"
  ELSE IF a.out = <<>> THEN "error"
  ELSE "ok"

\* argparse: -h prints the help and exits as soon as it is met; otherwise a
\* required option that never occurred is an error.
ParseResult(a) ==
  IF a.help THEN "help"
  ELSE IF a.out = <<>> \/ a.test = <<>> THEN "error"
  ELSE "ok"

\* Faulty variant of ExitStatus: the exception is caught and reported, and
\* the process ends as if main had returned.
ExitStatus_SwallowException(how) ==
  CASE how = "usage" -> 2
    [] OTHER -> 0

\* The process's exit status: sys.exit(main()) with main returning None,
\* argparse's exit after the help, argparse's error(), an exception that
\* nobody catches.
ExitStatus(how) ==
  CASE how = "returned" -> 0
    [] how = "help" -> 0
    [] how = "usage" -> 2
    [] OTHER -> 1

\* ------------------------------------------------------------------ state
VARIABLES
  argv,       \* the command line: [help, out, test], flags in order
  diskFull,   \* the environment: no block is left on the device
  fs,         \* the file system: path -> node
  pc,         \* where main() is
  test_file,  \* main's locals
  test_dir,
  script,
  exitCode,   \* the process's exit status, -1 while it runs
  err,        \* how the run failed: "none", "usage" or "io"
  steps,      \* the steps this run has attempted: <<[op, ok]>>
  fs0,        \* the file system when this run started
  results     \* the runs completed before this one

vars == <<argv, diskFull, fs, pc, test_file, test_dir, script, exitCode, err,
          steps, fs0, results>>

RECURSIVE ListsOfLen(_)
ListsOfLen(n) ==
  IF n = 0 THEN {<<>>}
  ELSE {Append(l, t) : l \in ListsOfLen(n - 1), t \in Targets}

\* Command lines: -h or not, --out never or once, --test up to MaxTargets
\* times.
CommandLines ==
  [help : BOOLEAN,
   out : {<<>>} \cup {<<p>> : p \in OutPaths},
   test : UNION {ListsOfLen(n) : n \in 0..MaxTargets}]

\* What a file at the output path can be before the run: somebody's earlier
\* script or other text; the process's own or another user's; writable or
\* not.
OldScript == BuildScriptText([i \in 1..(MaxTargets + 2) |-> <<"y", "z">>])
OldFiles ==
  {FileNode(c, mo[1], mo[2]) :
     c \in {<<"o", "l", "d">>, OldScript},
     mo \in {<<420, "me">>, <<493, "me">>, <<292, "me">>,
             <<511, "other">>, <<438, "other">>, <<420, "other">>}}

\* Directory modes by depth: all the process's own 0755, but for at most one
\* that is read-only (0555) or closed (0000).
DirModes ==
  {dm \in [0..MaxDepth -> {MkdirMode, 365, 0}] :
     Cardinality({k \in 0..MaxDepth : dm[k] # MkdirMode}) <= 1}

\* The file system with one chain of directories below the working
\* directory, ending in `leaf`.
ChainFS(chain, leaf, dm) ==
  [p \in AllPaths |->
     IF p = chain /\ p # <<>> THEN leaf
     ELSE IF p \in Ancestors(chain) \/ p = <<>> THEN DirNode(dm[Len(p)])
     ELSE NoNode]

FileSystems ==
  {ChainFS(chain, leaf, dm) :
     chain \in AllPaths,
     leaf \in {DirNode(MkdirMode)} \cup OldFiles,
     dm \in DirModes}

Init ==
  /\ argv \in CommandLines
  /\ diskFull \in BOOLEAN
  /\ fs \in FileSystems
  /\ pc = "parse"
  /\ test_file = <<>>
  /\ test_dir = <<>>
  /\ script = <<>>
  /\ exitCode = -1
  /\ err = "none"
  /\ steps = <<>>
  /\ fs0 = fs
  /\ results = <<>>

\* ---------------------------------------------------------------- actions
Log(op, ok) == steps' = Append(steps, [op |-> op, ok |-> ok])

\* The process ends: `how` as for ExitStatus, `e` the error reported.
Exit(how, e) ==
  /\ pc' = "exit"
  /\ exitCode' = ExitStatus(how)
  /\ err' = e

\* parser.parse_args()
ParseArgs ==
  /\ pc = "parse"
  /\ LET r == ParseResult(argv) IN
       /\ Log("parse", r # "error")
       /\ CASE r = "help" -> Exit("help", "none") /\ test_file' = test_file
            [] r = "error" -> Exit("usage", "usage") /\ test_file' = test_file
            [] OTHER ->
                 /\ pc' = "ensure_dir"
                 /\ test_file' = argv.out[Len(argv.out)]
                 /\ UNCHANGED <<exitCode, err>>
  /\ UNCHANGED <<argv, diskFull, fs, test_dir, script, fs0, results>>

\* Faulty variant of EnsureDir: a failure of os.makedirs is ignored and main
\* goes on.
EnsureDir_IgnoreFailure ==
  /\ pc = "ensure_dir"
  /\ test_dir' = Front(test_file)
  /\ LET r == IF PathExists(fs, Front(test_file)) THEN Ok(fs)
              ELSE Makedirs(fs, Front(test_file), diskFull)
     IN  /\ fs' = r.fs
         /\ Log("ensure_dir", r.err = "")
         /\ pc' = "build"
         /\ UNCHANGED <<exitCode, err>>
  /\ UNCHANGED <<argv, diskFull, test_file, script, fs0, results>>

\* test_dir = os.path.dirname(test_file); make it unless it exists.
EnsureDir ==
  /\ pc = "ensure_dir"
  /\ test_dir' = Front(test_file)
  /\ LET r == IF PathExists(fs, Front(test_file)) THEN Ok(fs)
              ELSE Makedirs(fs, Front(test_file), diskFull)
     IN  /\ fs' = r.fs
         /\ Log("ensure_dir", r.err = "")
         /\ IF r.err = ""
            THEN pc' = "build" /\ UNCHANGED <<exitCode, err>>
            ELSE Exit("exception", "io")
  /\ UNCHANGED <<argv, diskFull, test_file, script, fs0, results>>

\* script = '#!/bin/sh\n\n', then one line per target.
BuildScript ==
  /\ pc = "build"
  /\ script' = BuildScriptText(argv.test)
  /\ pc' = "open"
  /\ UNCHANGED <<argv, diskFull, fs, test_file, test_dir, exitCode, err,
                 steps, fs0, results>>

\* Faulty variant of OpenFile: a failed open is tried a second time.
OpenFile_RetryOnce ==
  /\ pc = "open"
  /\ LET r == OpenW(fs, test_file, diskFull) IN
       /\ fs' = r.fs
       /\ Log("open", r.err = "")
       /\ IF r.err = ""
          THEN pc' = "write" /\ UNCHANGED <<exitCode, err>>
          ELSE IF \E i \in 1..Len(steps) : steps[i].op = "open"
          THEN Exit("exception", "io")
          ELSE UNCHANGED <<pc, exitCode, err>>
  /\ UNCHANGED <<argv, diskFull, test_file, test_dir, script, fs0, results>>

\* with open(test_file, 'w') as file:
OpenFile ==
  /\ pc = "open"
  /\ LET r == OpenW(fs, test_file, diskFull) IN
       /\ fs' = r.fs
       /\ Log("open", r.err = "")
       /\ IF r.err = ""
          THEN pc' = "write" /\ UNCHANGED <<exitCode, err>>
          ELSE Exit("exception", "io")
  /\ UNCHANGED <<argv, diskFull, test_file, test_dir, script, fs0, results>>

\* file.write(script), and the close that flushes it: one write of a text
\* shorter than a block, which a full device refuses whole.
WriteFile ==
  /\ pc = "write"
  /\ IF diskFull
     THEN /\ fs' = fs
          /\ Log("write", FALSE)
          /\ Exit("exception", "io")
     ELSE /\ fs' = [fs EXCEPT ![test_file].content = WriteAt(@, script)]
          /\ Log("write", TRUE)
          /\ pc' = "chmod"
          /\ UNCHANGED <<exitCode, err>>
  /\ UNCHANGED <<argv, diskFull, test_file, test_dir, script, fs0, results>>

\* Faulty variant of SetPermissions: the script is removed again when its
\* mode cannot be set.
SetPermissions_Rollback ==
  /\ pc = "chmod"
  /\ LET r == Chmod(fs, test_file, Permissions) IN
       /\ Log("chmod", r.err = "")
       /\ IF r.err = ""
          THEN fs' = r.fs /\ Exit("returned", "none")
          ELSE fs' = [fs EXCEPT ![test_file] = NoNode] /\ Exit("exception", "io")
  /\ UNCHANGED <<argv, diskFull, test_file, test_dir, script, fs0, results>>

\* os.chmod(test_file, permissions); main returns and sys.exit ends the
\* process.
SetPermissions ==
  /\ pc = "chmod"
  /\ LET r == Chmod(fs, test_file, Permissions) IN
       /\ fs' = r.fs
       /\ Log("chmod", r.err = "")
       /\ IF r.err = ""
          THEN Exit("returned", "none")
          ELSE Exit("exception", "io")
  /\ UNCHANGED <<argv, diskFull, test_file, test_dir, script, fs0, results>>

\* The node at the output path the command line names (none without --out).
OutNode(f) == IF argv.out = <<>> THEN NoNode ELSE f[argv.out[Len(argv.out)]]

\* The run went through all of main.
Completed ==
  /\ pc = "exit"
  /\ steps # <<>>
  /\ steps[Len(steps)] = [op |-> "chmod", ok |-> TRUE]

\* The build invokes the generator again with the same command line.
Reinvoke ==
  /\ pc = "exit"
  /\ Len(results) + 1 < MaxRuns
  /\ results' = Append(results,
       [exitCode |-> exitCode, completed |-> Completed, node |-> OutNode(fs)])
  /\ pc' = "parse"
  /\ test_file' = <<>>
  /\ test_dir' = <<>>
  /\ script' = <<>>
  /\ exitCode' = -1
  /\ err' = "none"
  /\ steps' = <<>>
  /\ fs0' = fs
  /\ UNCHANGED <<argv, diskFull, fs>>

Step ==
  \/ ParseArgs
  \/ EnsureDir
  \/ BuildScript
  \/ OpenFile
  \/ WriteFile
  \/ SetPermissions

Next == Step \/ Reinvoke

Spec == Init /\ [][Next]_vars

\* main is sequential and every call in it returns: a run that has not
\* ended takes its next step.
LiveSpec == Spec /\ WF_vars(Step)

\* ================================================================= claims
\* Shorthands of the claims below.
OutPath == argv.out[Len(argv.out)]
StepDone(op, ok) == \E i \in 1..Len(steps) : steps[i] = [op |-> op, ok |-> ok]
LastStep(op, ok) ==
  steps # <<>> /\ steps[Len(steps)] = [op |-> op, ok |-> ok]
ArgsMissing == argv.test = <<>> \/ argv.out = <<>>
NonExecutable(mode) ==
  ~HasBit(mode, S_IXUSR) /\ ~HasBit(mode, S_IXGRP) /\ ~HasBit(mode, S_IXOTH)

\* Where the i-th target's line starts in the script: after the eleven
\* characters of "#!/bin/sh\n\n" and the lines of the targets before it.
RECURSIVE LineStart(_, _)
LineStart(T, i) ==
  IF i = 1 THEN 11 ELSE LineStart(T, i - 1) + Len(T[i - 1]) + 1

\* join(T, sep)
RECURSIVE Join(_, _)
Join(T, sep) ==
  IF T = <<>> THEN <<>>
  ELSE IF Len(T) = 1 THEN T[1]
  ELSE T[1] \o sep \o Join(Tail(T), sep)

\* ---- C1
\* C1: when a run completes, the file at the output path reads "#!/bin/sh",
\* an empty line, then the i-th --test target verbatim on the i-th line
\* after them, each line ended by one newline, and nothing else: as many
\* lines as flags, in the order of the flags, repeated ones repeated.
C1_TargetsInOrder ==
  Completed =>
    LET c == OutNode(fs).content
        T == argv.test
    IN  /\ OutNode(fs).kind = "file"
        /\ T # <<>>
        /\ Len(c) = LineStart(T, Len(T) + 1)
        /\ SubSeq(c, 1, 11) =
             <<"#", "!", "/", "b", "i", "n", "/", "s", "h", "\n", "\n">>
        /\ \A i \in 1..Len(T) :
             /\ SubSeq(c, LineStart(T, i) + 1, LineStart(T, i) + Len(T[i])) = T[i]
             /\ c[LineStart(T, i) + Len(T[i]) + 1] = "\n"

\* A completed run whose targets are neither sorted nor distinct.
C1_Witness ==
  /\ Completed
  /\ argv.test = <<<<"y", "z">>, <<"x">>, <<"x">>>>

\* ---- C2
\* The run has put the script's mode on the file: the file has it and did
\* not have it when the run started.
PermissionsApplied ==
  /\ argv.out # <<>>
  /\ OutNode(fs).kind = "file"
  /\ OutNode(fs).mode = Permissions
  /\ ~(OutNode(fs0).kind = "file" /\ OutNode(fs0).mode = Permissions)

\* C2: after a completed run the file's mode is rwxrwxr-- and no other bit,
\* whatever it was before; and whenever the run has applied that mode, the
\* whole script is already in the file.
C2_ModeAfterContent ==
  /\ Completed =>
       /\ \A b \in {S_IRUSR, S_IWUSR, S_IXUSR, S_IRGRP, S_IWGRP, S_IXGRP, S_IROTH} :
            HasBit(OutNode(fs).mode, b)
       /\ ~HasBit(OutNode(fs).mode, S_IWOTH)
       /\ ~HasBit(OutNode(fs).mode, S_IXOTH)
       /\ OutNode(fs).mode < 512
  /\ PermissionsApplied =>
       /\ StepDone("write", TRUE)
       /\ OutNode(fs).content = script
       /\ script = BuildScriptText(argv.test)

\* A completed run over a file that was there with mode 0755.
C2_Witness ==
  /\ Completed
  /\ OutNode(fs0).kind = "file"
  /\ OutNode(fs0).mode = 493
  /\ OutNode(fs).mode = 508

\* ---- C3
\* Nothing in the environment stands in the way of the run: the command line
\* is complete, the device has room, the directories are the process's own
\* and open, no file sits where a directory is needed, and a file at the
\* output path is the process's own and writable.
Unhindered ==
  /\ ~argv.help
  /\ ~ArgsMissing
  /\ ~diskFull
  /\ \A p \in AllPaths : fs0[p].kind = "dir" => fs0[p].mode = MkdirMode
  /\ \A q \in Ancestors(OutPath) : fs0[q].kind # "file"
  /\ fs0[OutPath].kind # "dir"
  /\ fs0[OutPath].kind = "file" =>
       fs0[OutPath].owner = "me" /\ CanWrite(fs0[OutPath])

\* C3: a run nothing hinders, started when the output path's parent did not
\* exist, ends with the parent directory and the generated file in place;
\* this for every output path, one without a directory component included.
C3_ParentAndFileExist ==
  (pc = "exit" /\ Unhindered /\ ~PathExists(fs0, Front(OutPath))) =>
    /\ fs[Front(OutPath)].kind = "dir"
    /\ fs[OutPath].kind = "file"
    /\ fs[OutPath].content = BuildScriptText(argv.test)

\* ---- C4
\* C4: a command line without --test or without --out ends in a usage error
\* with a non-zero exit status, the file system as it was.
C4_UsageErrorNoMutation ==
  (pc = "exit" /\ ArgsMissing) =>
    /\ err = "usage"
    /\ exitCode # 0
    /\ fs = fs0
    /\ steps = <<[op |-> "parse", ok |-> FALSE]>>

\* C4 as amended: a command line without --test or without --out never gets
\* past argument parsing and the file system stays as it was; the run ends
\* in a usage error with a non-zero exit status, unless -h is given, when
\* it prints the help and exits zero.
C4_MissingArgsNoMutation ==
  ArgsMissing =>
    /\ fs = fs0
    /\ \A i \in 1..Len(steps) : steps[i].op = "parse"
    /\ pc \in {"parse", "exit"}
    /\ pc = "exit" =>
         IF argv.help
         THEN exitCode = 0 /\ err = "none"
         ELSE exitCode # 0 /\ err = "usage" /\ LastStep("parse", FALSE)

\* A usage error for want of --test, with a file at the output path.
C4_Witness ==
  /\ pc = "exit"
  /\ ~argv.help
  /\ argv.test = <<>>
  /\ argv.out # <<>>
  /\ err = "usage"
  /\ OutNode(fs0).kind = "file"

\* ---- C5
\* C5: the exit status is zero exactly when the run went through all of
\* main.
C5_ZeroIffCompleted ==
  pc = "exit" => (exitCode = 0 <=> Completed)

\* C5 as amended: the exit status is zero exactly when the run went through
\* all of main or printed the help for -h; a run that ends in a usage
\* error, a directory, write or permission failure exits non-zero.
C5_ZeroIffCompletedOrHelp ==
  /\ pc = "exit" => (exitCode = 0 <=> (Completed \/ argv.help))
  /\ pc = "exit" /\ (\E i \in 1..Len(steps) : ~steps[i].ok) => exitCode > 0
  /\ pc # "exit" => exitCode = -1

\* A run that ends on a failed chmod.
C5_Witness ==
  /\ pc = "exit"
  /\ LastStep("chmod", FALSE)
  /\ exitCode = 1

C7_NonExecutableAfterChmodFailure ==
  (pc = "exit" /\ StepDone("write", TRUE) /\ LastStep("chmod", FALSE)) =>
    /\ err = "io"
    /\ exitCode # 0
    /\ fs[test_file].kind = "file"
    /\ fs[test_file].content = script
    /\ NonExecutable(fs[test_file].mode)

\* C7 as amended: when the write went through and the chmod fails, the run
\* ends in an error, the file holds the new script, and its mode is the one
\* it had before the chmod: the old file's mode, execute bits included, or
\* the mode a new file is created with.
C7_ModeUnchangedAfterChmodFailure ==
  (pc = "exit" /\ StepDone("write", TRUE) /\ LastStep("chmod", FALSE)) =>
    /\ err = "io"
    /\ exitCode # 0
    /\ fs[test_file].kind = "file"
    /\ fs[test_file].content = script
    /\ script = BuildScriptText(argv.test)
    /\ fs[test_file].mode =
         (IF fs0[test_file].kind = "file" THEN fs0[test_file].mode ELSE CreateMode)
    /\ NonExecutable(fs[test_file].mode) <=>
         (fs0[test_file].kind = "file" => NonExecutable(fs0[test_file].mode))

\* The chmod failed on a file that was executable before the run.
C7_Witness ==
  /\ pc = "exit"
  /\ LastStep("chmod", FALSE)
  /\ fs0[test_file].kind = "file"
  /\ HasBit(fs0[test_file].mode, S_IXUSR)
  /\ fs[test_file].content # fs0[test_file].content

\* ---- C8
\* C8: a completed run leaves the script and nothing of what the file held
\* before; after a completed run, the next run with the same command line
\* completes too and leaves the same content and the same mode.
C8_IdempotentOverwrite ==
  /\ Completed =>
       /\ OutNode(fs).content = script
       /\ script = BuildScriptText(argv.test)
  /\ (pc = "exit" /\ results # <<>> /\ results[Len(results)].completed) =>
       /\ Completed
       /\ exitCode = results[Len(results)].exitCode
       /\ OutNode(fs).content = results[Len(results)].node.content
       /\ OutNode(fs).mode = results[Len(results)].node.mode

\* The second of two completed runs, the first of which replaced a longer
\* file.
C8_Witness ==
  /\ Completed
  /\ Len(results) = 1
  /\ results[1].completed
  /\ Len(OutNode(fs).content) < Len(OldScript)

\* ---- C9
\* C9: the file of a completed run reads "#!/sh\n\n", the targets joined by
\* newlines, and a newline.
C9_ShContent ==
  Completed =>
    OutNode(fs).content =
      <<"#", "!", "/", "s", "h", "\n", "\n">>
        \o Join(argv.test, <<"\n">>) \o <<"\n">>

\* C9 as amended: the file of a completed run reads "#!/bin/sh\n\n", the
\* targets joined by newlines, and a newline.
C9_BinShContent ==
  Completed =>
    OutNode(fs).content =
      <<"#", "!", "/", "b", "i", "n", "/", "s", "h", "\n", "\n">>
        \o Join(argv.test, <<"\n">>) \o <<"\n">>

\* A completed run with several targets.
C9_Witness ==
  /\ Completed
  /\ Len(argv.test) = MaxTargets
  /\ argv.test[1] # argv.test[2]

\* ---- C10
StepOrder(op) ==
  CASE op = "parse" -> 1
    [] op = "ensure_dir" -> 2
    [] op = "open" -> 3
    [] op = "write" -> 4
    [] op = "chmod" -> 5

\* The steps of the run so far are in main's order, each at most once, all
\* but the last have succeeded, and a failed one ends the run.
LinearRun ==
  /\ \A i, j \in 1..Len(steps) :
       i < j => StepOrder(steps[i].op) < StepOrder(steps[j].op)
  /\ \A i \in 1..(Len(steps) - 1) : steps[i].ok
  /\ (\E i \in 1..Len(steps) : ~steps[i].ok) => pc = "exit"
  /\ pc = "ensure_dir" => LastStep("parse", TRUE)
  /\ pc \in {"build", "open"} => LastStep("ensure_dir", TRUE)
  /\ pc = "write" => LastStep("open", TRUE)
  /\ pc = "chmod" => LastStep("write", TRUE)

\* C10: a run is parse, ensure directory, write, set permissions, exit: each
\* step at most once and only after the earlier ones succeeded, nothing
\* done to the file system by a run once a step of it has failed, and every
\* run reaches its exit.
C10_LinearNoRetry ==
  /\ []LinearRun
  /\ [][(pc = "exit" \/ \E i \in 1..Len(steps) : ~steps[i].ok) => fs' = fs]_vars
  /\ (pc # "exit") ~> (pc = "exit")

\* A run that ended on its first failure, the open.
C10_Witness ==
  /\ pc = "exit"
  /\ steps = <<[op |-> "parse", ok |-> TRUE],
               [op |-> "ensure_dir", ok |-> TRUE],
               [op |-> "open", ok |-> FALSE]>>

====
